---- MODULE Spec2Model ----
(***************************************************************************)
(* A model of the HomeScreen of reacttaskplanner                           *)
(* (src/app/screens/HomeScreen.tsx): the date range of the date slider,    *)
(* the filter/sort effect that derives filteredTasks, the handlers that    *)
(* load, toggle and delete tasks against the task store, the loads of the  *)
(* categories, and the handlers of the date, the filter field and the      *)
(* category filter.                                                        *)
(*                                                                         *)
(* Time stamps are integers: TicksPerDay ticks make one local day, so the  *)
(* day of a stamp t is t \div TicksPerDay and setHours(0,0,0,0) maps t to  *)
(* the first tick of its day.  Calendar dates (the date range) are day     *)
(* numbers counted from 1 January 1970, converted from and to year, month  *)
(* and day of month the way the Date constructor and its getters do.       *)
(***************************************************************************)
EXTENDS Integers, Sequences, FiniteSets, TLC

VARIABLES
    tasks,               \* useState<Task[]>            (line 30)
    filteredTasks,       \* useState<Task[]>            (line 31)
    loading,             \* useState(true)              (line 32)
    refreshing,          \* useState(false)             (line 33)
    selectedFilterType,  \* 'createdAt' | 'dueDate'     (line 34)
    activeCategory,      \* string | null               (line 35)
    activeCategoryName,  \* string | null               (line 36)
    categories,          \* useState<Category[]>        (line 37)
    currentDate,         \* useState(today)             (line 46)
    now,                 \* the clock read by dateRange (line 54)
    dateRange,           \* useMemo(...)                (line 52)
    effectPending,       \* the filter effect is scheduled and has not run yet
    taskStore,           \* what storageService holds for the tasks
    categoryStore,       \* what AsyncStorage holds under CATEGORIES_STORAGE_KEY
    taskLoads,           \* loadTasks calls in flight
    categoryLoads,       \* loadCategories calls in flight
    saves,               \* storageService.saveTasks calls in flight
    prompts,             \* delete confirmation alerts on screen
    answered,            \* how the last delete confirmation was answered
    alerts,              \* the error alerts shown so far
    unhandled,           \* a promise rejection no handler caught
    overlapped           \* a load or save started while a save, or a save
                         \* while a load, was still in flight

vars == << tasks, filteredTasks, loading, refreshing, selectedFilterType,
           activeCategory, activeCategoryName, categories, currentDate, now,
           dateRange, effectPending, taskStore, categoryStore, taskLoads,
           categoryLoads, saves, prompts, answered, alerts, unhandled,
           overlapped >>

(***************************************************************************)
(* Bounds of the model.                                                    *)
(***************************************************************************)
TicksPerDay == 2
MaxDay == 1
MaxLen == 3
MaxTaskLoads == 1
MaxCategoryLoads == 2
MaxSaves == 1
MaxPrompts == 1

(***************************************************************************)
(* Values.                                                                 *)
(***************************************************************************)
Null == "<null>"            \* JavaScript null (activeCategory, activeCategoryName)
NoCategory == "<undefined>" \* a task without a category
NoDate == 0 - 1             \* a task without a dueDate
Undefined == 0 - 1          \* a key that is not in priorityOrder

Stamps == 0 .. ((MaxDay + 1) * TicksPerDay - 1)
FilterTypes == {"createdAt", "dueDate"}
Priorities == {"crucial", "high", "normal", "optional", "low"}
CategoryIds == {"", "c1", "c2"}

Task(id, createdAt, dueDate, priority, category, completed) ==
    [id |-> id, createdAt |-> createdAt, dueDate |-> dueDate,
     priority |-> priority, category |-> category, completed |-> completed]

SeqToSet(s) == {s[i] : i \in 1 .. Len(s)}

(***************************************************************************)
(* JavaScript truthiness of the values the handlers test.                  *)
(***************************************************************************)
\* if (activeCategory), if (category), if (!categoryId): null and the empty
\* string are falsy, every other string is truthy.
TruthyString(s) == s # Null /\ s # ""

\* task.dueDate in "selectedFilterType === 'dueDate' && task.dueDate": a
\* dueDate is a Date or its ISO string, which is truthy whenever it is there.
TruthyDate(d) == d # NoDate

(***************************************************************************)
(* The filter effect, lines 157-212.                                       *)
(***************************************************************************)
\* new Date(t); setHours(0, 0, 0, 0); getTime()
StartOfDay(t) == t - (t % TicksPerDay)

\* new Date(t); setHours(23, 59, 59, 999); getTime()
EndOfDay(t) == StartOfDay(t) + (TicksPerDay - 1)

\* lines 175-177, and the same without the fallback to createdAt
RelevantDateDueDateOnly(task, filterType) ==
    IF filterType = "dueDate" THEN task.dueDate ELSE task.createdAt

RelevantDate(task, filterType) ==
    IF filterType = "dueDate" /\ TruthyDate(task.dueDate)
    THEN task.dueDate
    ELSE task.createdAt

\* lines 179-182: the callback of tasks.filter, and the same with the start
\* of the day left out
InSelectedDayStrict(task, date, filterType) ==
    LET taskTimestamp == StartOfDay(RelevantDate(task, filterType))
    IN  taskTimestamp > StartOfDay(date) /\ taskTimestamp <= EndOfDay(date)

InSelectedDay(task, date, filterType) ==
    LET taskTimestamp == StartOfDay(RelevantDate(task, filterType))
    IN  taskTimestamp >= StartOfDay(date) /\ taskTimestamp <= EndOfDay(date)

\* lines 173-183
DateFiltered(ts, date, filterType) ==
    SelectSeq(ts, LAMBDA task : InSelectedDay(task, date, filterType))

\* lines 186-189
CategoryFiltered(ts, category) ==
    IF TruthyString(category)
    THEN SelectSeq(ts, LAMBDA task : task.category = category)
    ELSE ts

\* lines 202-207: priorityOrder[p], Undefined for a key it does not have
PriorityOrder(p) ==
    CASE p = "crucial"  -> 0
      [] p = "high"     -> 1
      [] p = "normal"   -> 2
      [] p = "optional" -> 3
      [] OTHER          -> Undefined

\* line 208: priorityOrder[p] || 2; undefined and 0 are both falsy.  First
\* the same with a missing key ranked behind optional.
RankOfMissingKeyLast(p) ==
    LET v == PriorityOrder(p)
    IN  IF v = Undefined THEN 4 ELSE IF v = 0 THEN 2 ELSE v

RankOf(p) ==
    LET v == PriorityOrder(p)
    IN  IF v = Undefined \/ v = 0 THEN 2 ELSE v

\* line 208: the comparator handed to sort
ComparePriority(a, b) == RankOf(a.priority) - RankOf(b.priority)

\* Array.prototype.sort is stable: x goes behind every element that does not
\* compare greater than it.
RECURSIVE InsertStable(_, _)
InsertStable(sorted, x) ==
    IF sorted = << >> THEN << x >>
    ELSE IF ComparePriority(Head(sorted), x) > 0
         THEN << x >> \o sorted
         ELSE << Head(sorted) >> \o InsertStable(Tail(sorted), x)

\* the same for a sort that is not stable: x goes before the elements it
\* compares equal to
RECURSIVE InsertUnstable(_, _)
InsertUnstable(sorted, x) ==
    IF sorted = << >> THEN << x >>
    ELSE IF ComparePriority(Head(sorted), x) >= 0
         THEN << x >> \o sorted
         ELSE << Head(sorted) >> \o InsertUnstable(Tail(sorted), x)

RECURSIVE SortFrom(_, _)
SortFrom(sorted, rest) ==
    IF rest = << >> THEN sorted
    ELSE SortFrom(InsertStable(sorted, Head(rest)), Tail(rest))

RECURSIVE SortFromUnstable(_, _)
SortFromUnstable(sorted, rest) ==
    IF rest = << >> THEN sorted
    ELSE SortFromUnstable(InsertUnstable(sorted, Head(rest)), Tail(rest))

\* lines 201-209: dateFiltered.sort(...)
SortByPriorityUnstable(ts) == SortFromUnstable(<< >>, ts)

SortByPriority(ts) == SortFrom(<< >>, ts)

\* lines 158-211: the value handed to setFilteredTasks
Derive(ts, date, filterType, category) ==
    IF Len(ts) = 0 THEN << >>
    ELSE SortByPriority(
             CategoryFiltered(DateFiltered(ts, date, filterType), category))

\* the null that getCategoryDetails and find return when nothing matches
NoDetails == [id |-> Null, name |-> Null]

\* lines 111-114: getCategoryDetails
GetCategoryDetails(cats, categoryId) ==
    IF ~TruthyString(categoryId) THEN NoDetails
    ELSE IF \E i \in 1 .. Len(cats) : cats[i].id = categoryId
         THEN cats[CHOOSE i \in 1 .. Len(cats) :
                       /\ cats[i].id = categoryId
                       /\ \A j \in 1 .. (i - 1) : cats[j].id # categoryId]
         ELSE NoDetails

\* lines 158-198: the value of activeCategoryName after the effect
EffectCategoryName(ts, category, cats, name) ==
    IF Len(ts) = 0 THEN name
    ELSE IF TruthyString(category)
         THEN IF GetCategoryDetails(cats, category) # NoDetails
              THEN GetCategoryDetails(cats, category).name
              ELSE name
         ELSE Null

(***************************************************************************)
(* The Date constructor and getters on local calendar dates.  A Date at    *)
(* local midnight is its day number: the days since 1 January 1970.        *)
(***************************************************************************)
\* DayFromYear(y): the day number of 1 January of year y
DayFromYear(y) ==
    365 * (y - 1970) + ((y - 1969) \div 4) - ((y - 1901) \div 100)
        + ((y - 1601) \div 400)

InLeapYear(y) == (y % 4 = 0) /\ ((y % 100 # 0) \/ (y % 400 = 0))

\* the days of year y before its month m (0 = January)
DaysBeforeMonth(y, m) ==
    LET common == << 0, 31, 59, 90, 120, 151, 181, 212, 243, 273, 304, 334 >>
    IN  common[m + 1] + (IF m >= 2 /\ InLeapYear(y) THEN 1 ELSE 0)

\* new Date(year, month, date): a month past December and a date of 0 carry
\* into the neighbouring year and month
NewDate(year, month, date) ==
    DayFromYear(year + (month \div 12))
        + DaysBeforeMonth(year + (month \div 12), month % 12) + (date - 1)

\* getFullYear()
GetFullYear(d) ==
    CHOOSE y \in ((d \div 366) + 1969) .. ((d \div 365) + 1971) :
        DayFromYear(y) <= d /\ d < DayFromYear(y + 1)

\* getMonth(), 0 = January
GetMonth(d) ==
    LET y == GetFullYear(d)
        dayInYear == d - DayFromYear(y)
    IN  CHOOSE m \in 0 .. 11 :
            /\ DaysBeforeMonth(y, m) <= dayInYear
            /\ (m = 11 \/ dayInYear < DaysBeforeMonth(y, m + 1))

\* getDate(), the day of the month
GetDate(d) ==
    LET y == GetFullYear(d)
    IN  d - DayFromYear(y) - DaysBeforeMonth(y, GetMonth(d)) + 1

(***************************************************************************)
(* dateRange, lines 52-75.                                                 *)
(***************************************************************************)
\* line 68, and the same without the wrap of December
NextMonthNoWrap(currentMonth) == currentMonth + 1

\* line 68
NextMonth(currentMonth) == IF currentMonth = 11 THEN 0 ELSE currentMonth + 1

\* line 69
NextMonthYear(currentMonth, currentYear) ==
    IF currentMonth = 11 THEN currentYear + 1 ELSE currentYear

\* lines 54-74; today is the Date the clock returned
DateRangeOf(today) ==
    LET currentMonth == GetMonth(today)
        currentYear == GetFullYear(today)
        lastDay == NewDate(currentYear, currentMonth + 1, 0)
        nextMonth == NextMonth(currentMonth)
        nextMonthYear == NextMonthYear(currentMonth, currentYear)
    IN  [i \in 1 .. GetDate(lastDay) |-> NewDate(currentYear, currentMonth, i)]
            \o [i \in 1 .. 15 |-> NewDate(nextMonthYear, nextMonth, i)]

(***************************************************************************)
(* The stores and the calls in flight.                                     *)
(***************************************************************************)
RemoveAt(s, i) == SubSeq(s, 1, i - 1) \o SubSeq(s, i + 1, Len(s))

\* AsyncStorage.getItem(CATEGORIES_STORAGE_KEY): null when the key was never
\* written, else the stored list
NoItem == [present |-> FALSE, items |-> << >>]
Item(cats) == [present |-> TRUE, items |-> cats]

CategoryList ==
    << [id |-> "c1", name |-> "Work"], [id |-> "c2", name |-> "Home"] >>

\* storageService (app/storage) by its contract: saveTasks persists the
\* collection it is given, loadTasks returns the collection persisted last
PersistedBy(data) == data
LoadedFrom(store) == store

LoadFailedAlert == "Failed to load tasks. Please try again."   \* line 223
UpdateFailedAlert == "Failed to update task status"            \* line 250
DeleteFailedAlert == "Failed to delete task"                   \* line 274

\* lines 173-211: tasks.filter builds a new array, sort orders that array in
\* place and setTasks is not called, so the effect leaves the tasks as they
\* are; and an effect that writes the derived list into the tasks
TasksReplacedByDerived(ts, derived) == derived

TasksAfterFilterEffect(ts, derived) == ts

\* lines 158-161 and 211, and an effect that returns early on an empty task
\* collection without clearing the derived list
FilteredTasksKeptWhenEmpty(ts, date, filterType, category, old) ==
    IF Len(ts) = 0 THEN old ELSE Derive(ts, date, filterType, category)

FilteredTasksAfterEffect(ts, date, filterType, category, old) ==
    Derive(ts, date, filterType, category)

\* The state the filter effect leaves behind, lines 157-212: it runs after
\* every render in which one of its dependencies changed.
FilterEffectSets(ts, date, filterType, category, cats, name) ==
    /\ filteredTasks' = FilteredTasksAfterEffect(ts, date, filterType,
                                                category, filteredTasks)
    /\ activeCategoryName' = EffectCategoryName(ts, category, cats, name)

(***************************************************************************)
(* The filter effect on its own, lines 157-212.                            *)
(***************************************************************************)
FilterEffect ==
    /\ effectPending
    /\ FilterEffectSets(tasks, currentDate, selectedFilterType, activeCategory,
                        categories, activeCategoryName)
    /\ effectPending' = FALSE
    /\ tasks' = TasksAfterFilterEffect(tasks, filteredTasks')
    /\ UNCHANGED << loading, refreshing, selectedFilterType,
                    activeCategory, categories, currentDate, now, dateRange,
                    taskStore, categoryStore, taskLoads, categoryLoads, saves,
                    prompts, answered, alerts, unhandled,
                    overlapped >>

(***************************************************************************)
(* dateRange as the first render computes it, lines 52-75.                 *)
(***************************************************************************)
ComputeDateRange ==
    /\ dateRange = << >>
    /\ dateRange' = DateRangeOf(now)
    /\ UNCHANGED << tasks, filteredTasks, loading, refreshing,
                    selectedFilterType, activeCategory, activeCategoryName,
                    categories, currentDate, now, effectPending, taskStore,
                    categoryStore, taskLoads, categoryLoads, saves, prompts,
                    answered, alerts, unhandled,
                    overlapped >>

(***************************************************************************)
(* loadTasks, lines 214-230: the call, the read of the store, and the two  *)
(* ways the awaited promise settles.                                       *)
(***************************************************************************)
Reading == [phase |-> "reading", data |-> << >>]
Read(data) == [phase |-> "read", data |-> data]

\* loadCategories up to its await, lines 78-80; it closes over activeCategory
CategoryReading(category) ==
    [activeCategory |-> category, phase |-> "reading", item |-> NoItem]

\* lines 214-217: loadTasks up to its await.  handleRefresh (lines 283-286)
\* and the focus effect (lines 133-154) call it; the loadCategories call
\* that follows it in handleRefresh is the step LoadCategories below.
LoadTasks ==
    /\ Len(taskLoads) < MaxTaskLoads
    /\ refreshing' = TRUE
    /\ taskLoads' = Append(taskLoads, Reading)
    /\ UNCHANGED << tasks, filteredTasks, loading, selectedFilterType,
                    activeCategory, activeCategoryName, categories,
                    currentDate, now, dateRange, effectPending, taskStore,
                    categoryStore, categoryLoads, saves, prompts, answered,
                    alerts, unhandled >>
    /\ overlapped' = (overlapped \/ saves # << >>)

\* storageService.loadTasks() reads the store, line 217
TaskStoreRead(i) ==
    /\ taskLoads[i].phase = "reading"
    /\ taskLoads' = [taskLoads EXCEPT ![i] = Read(LoadedFrom(taskStore))]
    /\ UNCHANGED << tasks, filteredTasks, loading, refreshing,
                    selectedFilterType, activeCategory, activeCategoryName,
                    categories, currentDate, now, dateRange, effectPending,
                    taskStore, categoryStore, categoryLoads, saves, prompts,
                    answered, alerts, unhandled,
                    overlapped >>

\* the value setTasks receives when a load resolves, line 218, and a load
\* that leaves the tasks alone
LoadedTasksKeepOld(load, old) == old

LoadedTasks(load, old) == load.data

\* lines 217-218 and 226-229: the promise resolves
LoadTasksResolve(i) ==
    /\ taskLoads[i].phase = "read"
    /\ tasks' = LoadedTasks(taskLoads[i], tasks)
    /\ loading' = FALSE
    /\ refreshing' = FALSE
    /\ taskLoads' = RemoveAt(taskLoads, i)
    /\ FilterEffectSets(tasks', currentDate, selectedFilterType,
                        activeCategory, categories, activeCategoryName)
    /\ UNCHANGED << selectedFilterType, activeCategory, categories,
                    currentDate, now, dateRange, effectPending, taskStore,
                    categoryStore, categoryLoads, saves, prompts, answered,
                    alerts, unhandled, overlapped >>

\* lines 219-225: the catch does not call setTasks, so the tasks stay; and a
\* catch that empties them
TasksAfterLoadFailedEmptied(ts) == << >>

TasksAfterLoadFailed(ts) == ts

\* lines 219-229: the promise rejects
LoadTasksReject(i) ==
    /\ taskLoads[i].phase = "reading"
    /\ alerts' = alerts \cup {LoadFailedAlert}
    /\ loading' = FALSE
    /\ refreshing' = FALSE
    /\ taskLoads' = RemoveAt(taskLoads, i)
    /\ tasks' = TasksAfterLoadFailed(tasks)
    /\ UNCHANGED << filteredTasks, selectedFilterType, activeCategory,
                    activeCategoryName, categories, currentDate, now,
                    dateRange, effectPending, taskStore, categoryStore,
                    categoryLoads, saves, prompts, answered, unhandled,
                    overlapped >>

(***************************************************************************)
(* loadCategories, lines 78-96.                                            *)
(***************************************************************************)
\* lines 78-80: loadCategories up to its await, called by handleRefresh
\* (line 285) and by the effects of lines 99-108
LoadCategories ==
    /\ Len(categoryLoads) < MaxCategoryLoads
    /\ categoryLoads' = Append(categoryLoads, CategoryReading(activeCategory))
    /\ UNCHANGED << tasks, filteredTasks, loading, refreshing,
                    selectedFilterType, activeCategory, activeCategoryName,
                    categories, currentDate, now, dateRange, effectPending,
                    taskStore, categoryStore, taskLoads, saves, prompts,
                    answered, alerts, unhandled,
                    overlapped >>

\* AsyncStorage.getItem reads the store, line 80
CategoryStoreRead(i) ==
    /\ categoryLoads[i].phase = "reading"
    /\ categoryLoads' = [categoryLoads EXCEPT
                             ![i].phase = "read", ![i].item = categoryStore]
    /\ UNCHANGED << tasks, filteredTasks, loading, refreshing,
                    selectedFilterType, activeCategory, activeCategoryName,
                    categories, currentDate, now, dateRange, effectPending,
                    taskStore, categoryStore, taskLoads, saves, prompts,
                    answered, alerts, unhandled,
                    overlapped >>

\* lines 86-91: the name loadCategories sets, for the activeCategory it
\* closed over
LoadedCategoryName(load, name) ==
    IF /\ TruthyString(load.activeCategory)
       /\ GetCategoryDetails(load.item.items, load.activeCategory) # NoDetails
    THEN GetCategoryDetails(load.item.items, load.activeCategory).name
    ELSE name

\* lines 81-92: the promise resolves; a stored item replaces categories and
\* the filter effect runs again, a missing item changes nothing
LoadCategoriesResolve(i) ==
    /\ categoryLoads[i].phase = "read"
    /\ categoryLoads' = RemoveAt(categoryLoads, i)
    /\ IF categoryLoads[i].item.present
       THEN /\ categories' = categoryLoads[i].item.items
            /\ FilterEffectSets(tasks, currentDate, selectedFilterType,
                                activeCategory, categories',
                                LoadedCategoryName(categoryLoads[i],
                                                   activeCategoryName))
       ELSE UNCHANGED << categories, filteredTasks, activeCategoryName >>
    /\ UNCHANGED << tasks, loading, refreshing, selectedFilterType,
                    activeCategory, currentDate, now, dateRange,
                    effectPending, taskStore, categoryStore, taskLoads, saves,
                    prompts, answered, alerts, unhandled,
                    overlapped >>

\* lines 93-95: the promise rejects, console.error only
LoadCategoriesReject(i) ==
    /\ categoryLoads[i].phase = "reading"
    /\ categoryLoads' = RemoveAt(categoryLoads, i)
    /\ UNCHANGED << tasks, filteredTasks, loading, refreshing,
                    selectedFilterType, activeCategory, activeCategoryName,
                    categories, currentDate, now, dateRange, effectPending,
                    taskStore, categoryStore, taskLoads, saves, prompts,
                    answered, alerts, unhandled,
                    overlapped >>

(***************************************************************************)
(* handleToggleTaskCompletion, lines 241-252.                              *)
(***************************************************************************)
\* a saveTasks call in flight, awaited by the toggle or the delete of taskId
Save(origin, taskId, data) ==
    [origin |-> origin, taskId |-> taskId, data |-> data]

\* lines 243-245: tasks.map(...); the same flipping the first task when no
\* id matches; and the same flipping every task
ToggledTasksOrFirst(ts, taskId) ==
    [i \in 1 .. Len(ts) |->
        IF ts[i].id = taskId \/ (i = 1 /\ \A j \in 1 .. Len(ts) : ts[j].id # taskId)
        THEN [ts[i] EXCEPT !.completed = ~ts[i].completed]
        ELSE ts[i]]

ToggledTasksEveryTask(ts, taskId) ==
    [i \in 1 .. Len(ts) |-> [ts[i] EXCEPT !.completed = ~ts[i].completed]]

ToggledTasks(ts, taskId) ==
    [i \in 1 .. Len(ts) |->
        IF ts[i].id = taskId
        THEN [ts[i] EXCEPT !.completed = ~ts[i].completed]
        ELSE ts[i]]

\* lines 243-247: up to the await of saveTasks
HandleToggleTaskCompletion(taskId) ==
    /\ Len(saves) < MaxSaves
    /\ tasks' = ToggledTasks(tasks, taskId)
    /\ saves' = Append(saves, Save("toggle", taskId, tasks'))
    /\ FilterEffectSets(tasks', currentDate, selectedFilterType,
                        activeCategory, categories, activeCategoryName)
    /\ UNCHANGED << loading, refreshing, selectedFilterType, activeCategory,
                    categories, currentDate, now, dateRange, effectPending,
                    taskStore, categoryStore, taskLoads, categoryLoads,
                    prompts, answered, alerts, unhandled >>
    /\ overlapped' = (overlapped \/ saves # << >> \/ taskLoads # << >>)

(***************************************************************************)
(* handleDeleteTask, lines 254-276.                                        *)
(***************************************************************************)
\* lines 256-271: Alert.alert shows the prompt and returns; the onPress of
\* its Delete button closes over taskId and over the tasks of this render
HandleDeleteTask(taskId) ==
    /\ Len(prompts) < MaxPrompts
    /\ prompts' = Append(prompts, [taskId |-> taskId, tasks |-> tasks])
    /\ UNCHANGED << tasks, filteredTasks, loading, refreshing,
                    selectedFilterType, activeCategory, activeCategoryName,
                    categories, currentDate, now, dateRange, effectPending,
                    taskStore, categoryStore, taskLoads, categoryLoads, saves,
                    answered, alerts, unhandled,
                    overlapped >>

\* line 260: the Cancel button has no onPress, so the tasks stay; and a
\* Cancel that deletes all the same
TasksAfterCancelDeletes(prompt, ts) ==
    SelectSeq(prompt.tasks, LAMBDA task : task.id # prompt.taskId)

TasksAfterCancel(prompt, ts) == ts

PressCancel(i) ==
    /\ i \in 1 .. Len(prompts)
    /\ prompts' = RemoveAt(prompts, i)
    /\ answered' = "cancel"
    /\ tasks' = TasksAfterCancel(prompts[i], tasks)
    /\ UNCHANGED << filteredTasks, loading, refreshing, selectedFilterType,
                    activeCategory, activeCategoryName, categories,
                    currentDate, now, dateRange, effectPending, taskStore,
                    categoryStore, taskLoads, categoryLoads, saves, alerts,
                    unhandled,
                    overlapped >>

\* line 265: tasks.filter(...) on the tasks the prompt closed over
TasksAfterDelete(prompt) ==
    SelectSeq(prompt.tasks, LAMBDA task : task.id # prompt.taskId)

\* lines 264-267: the onPress of the Delete button, up to its await
PressDelete(i) ==
    /\ i \in 1 .. Len(prompts)
    /\ Len(saves) < MaxSaves
    /\ prompts' = RemoveAt(prompts, i)
    /\ answered' = "delete"
    /\ tasks' = TasksAfterDelete(prompts[i])
    /\ saves' = Append(saves, Save("delete", prompts[i].taskId, tasks'))
    /\ FilterEffectSets(tasks', currentDate, selectedFilterType,
                        activeCategory, categories, activeCategoryName)
    /\ UNCHANGED << loading, refreshing, selectedFilterType, activeCategory,
                    categories, currentDate, now, dateRange, effectPending,
                    taskStore, categoryStore, taskLoads, categoryLoads,
                    alerts, unhandled >>
    /\ overlapped' = (overlapped \/ saves # << >> \/ taskLoads # << >>)

(***************************************************************************)
(* storageService.saveTasks settles, lines 247 and 267.                    *)
(***************************************************************************)
\* the write reaches the store and the promise resolves; nothing follows the
\* await in either handler
SaveTasksResolve(i) ==
    /\ i \in 1 .. Len(saves)
    /\ taskStore' = PersistedBy(saves[i].data)
    /\ saves' = RemoveAt(saves, i)
    /\ UNCHANGED << tasks, filteredTasks, loading, refreshing,
                    selectedFilterType, activeCategory, activeCategoryName,
                    categories, currentDate, now, dateRange, effectPending,
                    categoryStore, taskLoads, categoryLoads, prompts,
                    answered, alerts, unhandled,
                    overlapped >>

\* lines 248-251: the catch of handleToggleTaskCompletion leaves the tasks
\* as the toggle set them; and a catch that flips the saved tasks back
TasksAfterToggleSaveFailedRollsBack(save, ts) ==
    [i \in 1 .. Len(ts) |->
        IF ts[i] \in SeqToSet(save.data)
        THEN [ts[i] EXCEPT !.completed = ~ts[i].completed]
        ELSE ts[i]]

TasksAfterToggleSaveFailed(save, ts) == ts

\* the promise of a toggle's save rejects, lines 248-251
ToggleSaveReject(i) ==
    /\ i \in 1 .. Len(saves)
    /\ saves[i].origin = "toggle"
    /\ saves' = RemoveAt(saves, i)
    /\ alerts' = alerts \cup {UpdateFailedAlert}
    /\ tasks' = TasksAfterToggleSaveFailed(saves[i], tasks)
    /\ UNCHANGED << filteredTasks, loading, refreshing, selectedFilterType,
                    activeCategory, activeCategoryName, categories,
                    currentDate, now, dateRange, effectPending, taskStore,
                    categoryStore, taskLoads, categoryLoads, prompts,
                    answered, unhandled,
                    overlapped >>

\* The promise of a delete's save rejects inside the async onPress, line
\* 267.  The try of lines 255-275 ended when Alert.alert returned, so its
\* catch does not run: the rejection is caught by nobody.
DeleteSaveReject(i) ==
    /\ i \in 1 .. Len(saves)
    /\ saves[i].origin = "delete"
    /\ saves' = RemoveAt(saves, i)
    /\ unhandled' = TRUE
    /\ UNCHANGED << tasks, filteredTasks, loading, refreshing,
                    selectedFilterType, activeCategory, activeCategoryName,
                    categories, currentDate, now, dateRange, effectPending,
                    taskStore, categoryStore, taskLoads, categoryLoads,
                    prompts, answered, alerts, overlapped >>

(***************************************************************************)
(* The handlers of the view state, lines 278-304, each with the effects    *)
(* that the render after it runs.                                          *)
(***************************************************************************)
\* the dates of the date slider are local midnights
SliderDates == {StartOfDay(t) : t \in Stamps}

\* lines 278-281: handleDateChange; the new Date re-runs the filter effect
HandleDateChange(date) ==
    /\ currentDate' = date
    /\ FilterEffectSets(tasks, date, selectedFilterType, activeCategory,
                        categories, activeCategoryName)
    /\ tasks' = TasksAfterFilterEffect(tasks, filteredTasks')
    /\ UNCHANGED << loading, refreshing, selectedFilterType, activeCategory,
                    categories, now, dateRange, effectPending, taskStore,
                    categoryStore, taskLoads, categoryLoads, saves, prompts,
                    answered, alerts, unhandled, overlapped >>

\* lines 288-290: toggleDateFilterType, followed by the filter effect
OtherFilterType(prev) == IF prev = "createdAt" THEN "dueDate" ELSE "createdAt"

ToggleDateFilterType ==
    /\ selectedFilterType' = OtherFilterType(selectedFilterType)
    /\ FilterEffectSets(tasks, currentDate, selectedFilterType',
                        activeCategory, categories, activeCategoryName)
    /\ tasks' = TasksAfterFilterEffect(tasks, filteredTasks')
    /\ UNCHANGED << loading, refreshing, activeCategory, categories,
                    currentDate, now, dateRange, effectPending, taskStore,
                    categoryStore, taskLoads, categoryLoads, saves, prompts,
                    answered, alerts, unhandled, overlapped >>

\* lines 295-303: the name handleCategoryFilter sets
SelectedCategoryName(category, cats, name) ==
    IF TruthyString(category)
    THEN IF GetCategoryDetails(cats, category) # NoDetails
         THEN GetCategoryDetails(cats, category).name
         ELSE name
    ELSE Null

\* lines 292-304: handleCategoryFilter.  A changed activeCategory re-runs the
\* filter effect and gives loadCategories a new identity, so that the effect
\* of lines 99-101 and the focus effect of lines 103-108 each call it.
HandleCategoryFilter(category) ==
    /\ activeCategory' = category
    /\ IF category # activeCategory
       THEN /\ Len(categoryLoads) + 2 <= MaxCategoryLoads
            /\ FilterEffectSets(tasks, currentDate, selectedFilterType,
                                category, categories,
                                SelectedCategoryName(category, categories,
                                                     activeCategoryName))
            /\ tasks' = TasksAfterFilterEffect(tasks, filteredTasks')
            /\ categoryLoads' = categoryLoads \o << CategoryReading(category),
                                                    CategoryReading(category) >>
       ELSE /\ activeCategoryName' =
                   SelectedCategoryName(category, categories,
                                        activeCategoryName)
            /\ UNCHANGED << tasks, filteredTasks, categoryLoads >>
    /\ UNCHANGED << loading, refreshing, selectedFilterType, categories,
                    currentDate, now, dateRange, effectPending, taskStore,
                    categoryStore, taskLoads, saves, prompts, answered,
                    alerts, unhandled, overlapped >>

\* another screen of the application writes or removes the categories item
CategoryStoreWritten(item) ==
    /\ item # categoryStore
    /\ categoryStore' = item
    /\ UNCHANGED << tasks, filteredTasks, loading, refreshing,
                    selectedFilterType, activeCategory, activeCategoryName,
                    categories, currentDate, now, dateRange, effectPending,
                    taskStore, taskLoads, categoryLoads, saves, prompts,
                    answered, alerts, unhandled, overlapped >>

(***************************************************************************)
(* The screen after its first render and effects: loadCategories was       *)
(* called by the effects of lines 99-108, loadTasks by the focus effect of *)
(* lines 133-154, and the filter effect found no tasks.                    *)
(***************************************************************************)
\* the tasks the store may hold when the screen opens
StoredTask1 == Task(1, 1, NoDate, "high", "c1", FALSE)
StoredTask2 == Task(2, 0, 1, "crucial", NoCategory, FALSE)
InitialTaskStores == { << >>, << StoredTask1, StoredTask2 >> }

\* 15 March 2024, the day the screen opens in Spec and DeriveSpec
OpeningDay == NewDate(2024, 2, 15)

Init ==
    /\ tasks = << >>
    /\ filteredTasks = << >>
    /\ loading = TRUE
    /\ refreshing = TRUE
    /\ selectedFilterType = "dueDate"
    /\ activeCategory = Null
    /\ activeCategoryName = Null
    /\ categories = << >>
    /\ currentDate = 1
    /\ now = OpeningDay
    /\ dateRange = DateRangeOf(now)
    /\ effectPending = FALSE
    /\ taskStore \in InitialTaskStores
    /\ categoryStore = Item(CategoryList)
    /\ taskLoads = << Reading >>
    /\ categoryLoads = << CategoryReading(Null), CategoryReading(Null) >>
    /\ saves = << >>
    /\ prompts = << >>
    /\ answered = "none"
    /\ alerts = {}
    /\ unhandled = FALSE
    /\ overlapped = FALSE

\* TaskList renders filteredTasks (lines 347-356): its rows are what the user
\* can toggle or delete
ShownIds == {filteredTasks[i].id : i \in 1 .. Len(filteredTasks)}

Next ==
    \/ LoadTasks
    \/ \E i \in 1 .. Len(taskLoads) : TaskStoreRead(i)
    \/ \E i \in 1 .. Len(taskLoads) : LoadTasksResolve(i)
    \/ \E i \in 1 .. Len(taskLoads) : LoadTasksReject(i)
    \/ \E taskId \in ShownIds : HandleToggleTaskCompletion(taskId)
    \/ \E taskId \in ShownIds : HandleDeleteTask(taskId)
    \/ \E i \in 1 .. Len(prompts) : PressCancel(i)
    \/ \E i \in 1 .. Len(prompts) : PressDelete(i)
    \/ \E i \in 1 .. Len(saves) : SaveTasksResolve(i)
    \/ \E i \in 1 .. Len(saves) : ToggleSaveReject(i)
    \/ \E i \in 1 .. Len(saves) : DeleteSaveReject(i)

Spec == Init /\ [][Next]_vars

(***************************************************************************)
(* DeriveSpec: the filter effect applied to every task collection, date,   *)
(* filter field and category filter within the bounds.                     *)
(***************************************************************************)
\* a single task takes every combination of attributes
TaskAttributes ==
    [createdAt : Stamps, dueDate : {NoDate} \cup Stamps,
     priority : Priorities, category : {NoCategory, "c1", "c2"}]

\* the tasks of a longer collection have no dueDate and one category: a
\* task of any priority created on the last tick of the first day, or a
\* normal task created on the first tick of the second day
ListedTaskAttributes ==
    [createdAt : {TicksPerDay - 1}, dueDate : {NoDate},
     priority : Priorities, category : {"c1"}]
        \cup [createdAt : {TicksPerDay}, dueDate : {NoDate},
              priority : {"normal"}, category : {"c1"}]

\* the collections of n tasks; a task's id is its position in the store
TaskCollections(n) ==
    { [i \in 1 .. n |->
          Task(i, f[i].createdAt, f[i].dueDate, f[i].priority, f[i].category,
               FALSE)] :
      f \in [1 .. n -> IF n <= 1 THEN TaskAttributes
                                 ELSE ListedTaskAttributes] }

DeriveInit ==
    /\ \E n \in 0 .. MaxLen : tasks \in TaskCollections(n)
    /\ filteredTasks = << >>
    /\ loading = FALSE
    /\ refreshing = FALSE
    /\ selectedFilterType \in FilterTypes
    /\ activeCategory \in {Null} \cup CategoryIds
    /\ activeCategoryName = Null
    /\ categories = CategoryList
    /\ currentDate \in Stamps
    /\ now = OpeningDay
    /\ dateRange = DateRangeOf(now)
    /\ effectPending = TRUE
    /\ taskStore = tasks
    /\ categoryStore = Item(CategoryList)
    /\ taskLoads = << >>
    /\ categoryLoads = << >>
    /\ saves = << >>
    /\ prompts = << >>
    /\ answered = "none"
    /\ alerts = {}
    /\ unhandled = FALSE
    /\ overlapped = FALSE

DeriveNext == FilterEffect

DeriveSpec == DeriveInit /\ [][DeriveNext]_vars

(***************************************************************************)
(* DateSpec: dateRange computed on every reference date of the years       *)
(* below.                                                                  *)
(***************************************************************************)
ReferenceYears == {1900, 1999, 2000, 2023, 2024, 2100}
ReferenceDays ==
    { NewDate(y, m, d) : y \in ReferenceYears, m \in 0 .. 11, d \in {1, 15, 28} }
        \cup { NewDate(y, m + 1, 0) : y \in ReferenceYears, m \in 0 .. 11 }

DateInit ==
    /\ tasks = << >>
    /\ filteredTasks = << >>
    /\ loading = TRUE
    /\ refreshing = FALSE
    /\ selectedFilterType = "dueDate"
    /\ activeCategory = Null
    /\ activeCategoryName = Null
    /\ categories = << >>
    /\ currentDate = 1
    /\ now \in ReferenceDays
    /\ dateRange = << >>
    /\ effectPending = FALSE
    /\ taskStore = << >>
    /\ categoryStore = NoItem
    /\ taskLoads = << >>
    /\ categoryLoads = << >>
    /\ saves = << >>
    /\ prompts = << >>
    /\ answered = "none"
    /\ alerts = {}
    /\ unhandled = FALSE
    /\ overlapped = FALSE

DateNext == ComputeDateRange

DateSpec == DateInit /\ [][DateNext]_vars

(***************************************************************************)
(* CategorySpec: the screen with its loads of tasks and categories, the    *)
(* category filter and a categories item that other screens rewrite.       *)
(***************************************************************************)
\* what AsyncStorage may hold under CATEGORIES_STORAGE_KEY
CategoryStores ==
    { NoItem, Item(CategoryList), Item(<< [id |-> "c2", name |-> "Home"] >>) }

CategoryInit ==
    /\ tasks = << >>
    /\ filteredTasks = << >>
    /\ loading = TRUE
    /\ refreshing = TRUE
    /\ selectedFilterType = "dueDate"
    /\ activeCategory = Null
    /\ activeCategoryName = Null
    /\ categories = << >>
    /\ currentDate = 1
    /\ now = OpeningDay
    /\ dateRange = DateRangeOf(now)
    /\ effectPending = FALSE
    /\ taskStore \in InitialTaskStores
    /\ categoryStore \in CategoryStores
    /\ taskLoads = << Reading >>
    /\ categoryLoads = << CategoryReading(Null), CategoryReading(Null) >>
    /\ saves = << >>
    /\ prompts = << >>
    /\ answered = "none"
    /\ alerts = {}
    /\ unhandled = FALSE
    /\ overlapped = FALSE

CategoryNext ==
    \/ LoadTasks
    \/ \E i \in 1 .. Len(taskLoads) : TaskStoreRead(i)
    \/ \E i \in 1 .. Len(taskLoads) : LoadTasksResolve(i)
    \/ \E i \in 1 .. Len(taskLoads) : LoadTasksReject(i)
    \/ LoadCategories
    \/ \E i \in 1 .. Len(categoryLoads) : CategoryStoreRead(i)
    \/ \E i \in 1 .. Len(categoryLoads) : LoadCategoriesResolve(i)
    \/ \E i \in 1 .. Len(categoryLoads) : LoadCategoriesReject(i)
    \/ \E category \in {Null} \cup CategoryIds : HandleCategoryFilter(category)
    \/ \E item \in CategoryStores : CategoryStoreWritten(item)

CategorySpec == CategoryInit /\ [][CategoryNext]_vars

(***************************************************************************)
(* ViewSpec: the screen with its view-state handlers next to the loads,    *)
(* toggles and confirmed deletes, over a store of one task.                 *)
(***************************************************************************)
\* a task without a category, created on the first day and due on the
\* second
ViewTask == Task(1, 1, TicksPerDay, "normal", NoCategory, FALSE)

\* the category filters of the header: all categories, or the first one
ViewCategories == {Null, "c1"}

ViewInit ==
    /\ tasks = << >>
    /\ filteredTasks = << >>
    /\ loading = TRUE
    /\ refreshing = TRUE
    /\ selectedFilterType = "dueDate"
    /\ activeCategory = Null
    /\ activeCategoryName = Null
    /\ categories = << >>
    /\ currentDate = 1
    /\ now = OpeningDay
    /\ dateRange = DateRangeOf(now)
    /\ effectPending = FALSE
    /\ taskStore = << ViewTask >>
    /\ categoryStore = Item(CategoryList)
    /\ taskLoads = << Reading >>
    /\ categoryLoads = << CategoryReading(Null), CategoryReading(Null) >>
    /\ saves = << >>
    /\ prompts = << >>
    /\ answered = "none"
    /\ alerts = {}
    /\ unhandled = FALSE
    /\ overlapped = FALSE

ViewNext ==
    \/ LoadTasks
    \/ \E i \in 1 .. Len(taskLoads) : TaskStoreRead(i)
    \/ \E i \in 1 .. Len(taskLoads) : LoadTasksResolve(i)
    \/ \E taskId \in ShownIds : HandleToggleTaskCompletion(taskId)
    \/ \E taskId \in ShownIds : HandleDeleteTask(taskId)
    \/ \E i \in 1 .. Len(prompts) : PressDelete(i)
    \/ \E i \in 1 .. Len(saves) : SaveTasksResolve(i)
    \/ \E date \in SliderDates : HandleDateChange(date)
    \/ ToggleDateFilterType
    \/ \E category \in ViewCategories : HandleCategoryFilter(category)
    \/ \E i \in 1 .. Len(categoryLoads) : CategoryStoreRead(i)
    \/ \E i \in 1 .. Len(categoryLoads) : LoadCategoriesResolve(i)

ViewSpec == ViewInit /\ [][ViewNext]_vars

(***************************************************************************)
(* ToggleSpec: handleToggleTaskCompletion called with every id, present in *)
(* the task collection or not, on every loaded task collection within the  *)
(* bounds.                                                                 *)
(***************************************************************************)
\* the ids a caller may pass: those of the tasks and one that no task has
TaskIds == 1 .. (MaxLen + 1)

\* the tasks of the collections that are toggled: one without a dueDate
\* and without a category, one with both
ToggledTaskAttributes ==
    { [createdAt |-> 0, dueDate |-> NoDate, priority |-> "normal",
       category |-> NoCategory],
      [createdAt |-> 1, dueDate |-> TicksPerDay, priority |-> "crucial",
       category |-> "c1"] }

\* the collections of n such tasks; a task's id is its position
ToggledCollections(n) ==
    { [i \in 1 .. n |->
          Task(i, f[i].createdAt, f[i].dueDate, f[i].priority, f[i].category,
               FALSE)] :
      f \in [1 .. n -> ToggledTaskAttributes] }

ToggleInit ==
    /\ \E n \in 0 .. MaxLen : tasks \in ToggledCollections(n)
    /\ selectedFilterType = "dueDate"
    /\ activeCategory = Null
    /\ activeCategoryName = Null
    /\ categories = CategoryList
    /\ currentDate = 1
    /\ filteredTasks =
           Derive(tasks, currentDate, selectedFilterType, activeCategory)
    /\ loading = FALSE
    /\ refreshing = FALSE
    /\ now = OpeningDay
    /\ dateRange = DateRangeOf(now)
    /\ effectPending = FALSE
    /\ taskStore = tasks
    /\ categoryStore = Item(CategoryList)
    /\ taskLoads = << >>
    /\ categoryLoads = << >>
    /\ saves = << >>
    /\ prompts = << >>
    /\ answered = "none"
    /\ alerts = {}
    /\ unhandled = FALSE
    /\ overlapped = FALSE

ToggleNext ==
    \/ \E taskId \in TaskIds : HandleToggleTaskCompletion(taskId)
    \/ \E i \in 1 .. Len(saves) : SaveTasksResolve(i)
    \/ \E i \in 1 .. Len(saves) : ToggleSaveReject(i)

ToggleSpec == ToggleInit /\ [][ToggleNext]_vars

(***************************************************************************)
(* The properties of the derived list, checked under DeriveSpec in the     *)
(* states the filter effect has left.                                      *)
(***************************************************************************)
\* the day a time stamp falls on
DayOf(t) == t \div TicksPerDay

\* the rank the specification gives a priority: crucial=0, high=1,
\* normal=2, optional=3, anything else 2
SpecifiedRank(p) ==
    CASE p = "crucial"  -> 0
      [] p = "high"     -> 1
      [] p = "optional" -> 3
      [] OTHER          -> 2

\* the effective comparison time stamp of the specification, section 4.3
\* rule 2
EffectiveStamp(task) ==
    IF selectedFilterType = "dueDate" /\ task.dueDate # NoDate
    THEN task.dueDate
    ELSE task.createdAt

OnSelectedDay(task) == DayOf(EffectiveStamp(task)) = DayOf(currentDate)

Shown(task) == \E i \in 1 .. Len(filteredTasks) : filteredTasks[i] = task

Derived == ~effectPending

\* C1: the derived list is ascending by the specified priority rank, so a
\* crucial task precedes every high task shown with it.
C1_AscendingBySpecifiedRank ==
    Derived =>
        \A i, j \in 1 .. Len(filteredTasks) :
            i < j => SpecifiedRank(filteredTasks[i].priority)
                         <= SpecifiedRank(filteredTasks[j].priority)

\* C2: with no category filter, a task of the collection is in the derived
\* list exactly when its effective comparison time stamp falls on the
\* selected day.
C2_ShownIffOnSelectedDay ==
    (Derived /\ activeCategory = Null) =>
        \A i \in 1 .. Len(tasks) : Shown(tasks[i]) <=> OnSelectedDay(tasks[i])

C2_Witness ==
    /\ Derived
    /\ activeCategory = Null
    /\ currentDate # StartOfDay(currentDate)
    /\ Len(tasks) = 3
    /\ Len(filteredTasks) = 2
    /\ \E i \in 1 .. Len(filteredTasks) :
           filteredTasks[i].createdAt = StartOfDay(currentDate)

\* C3: when the filter field is dueDate, a task without a dueDate is shown
\* exactly when its createdAt day is the selected day, and a task with a
\* dueDate is shown exactly when its dueDate day is the selected day,
\* whatever its createdAt day is.
C3_DueDateFallback ==
    (Derived /\ selectedFilterType = "dueDate" /\ activeCategory = Null) =>
        \A i \in 1 .. Len(tasks) :
            IF tasks[i].dueDate = NoDate
            THEN Shown(tasks[i])
                     <=> DayOf(tasks[i].createdAt) = DayOf(currentDate)
            ELSE Shown(tasks[i])
                     <=> DayOf(tasks[i].dueDate) = DayOf(currentDate)

\* a task without a dueDate is shown on its createdAt day
C3_Witness ==
    /\ Derived
    /\ selectedFilterType = "dueDate"
    /\ activeCategory = Null
    /\ Len(tasks) = 1
    /\ tasks[1].dueDate = NoDate
    /\ DayOf(tasks[1].createdAt) = DayOf(currentDate)
    /\ filteredTasks = tasks

\* C4: under a non-null category filter c, every task of the derived list
\* has category c and every task of the selected day with category c is in
\* the derived list.
C4_OnlyActiveCategory ==
    (Derived /\ activeCategory # Null) =>
        /\ \A i \in 1 .. Len(filteredTasks) :
               filteredTasks[i].category = activeCategory
        /\ \A i \in 1 .. Len(tasks) :
               (OnSelectedDay(tasks[i]) /\ tasks[i].category = activeCategory)
                   => Shown(tasks[i])

\* C5: two tasks of the derived list with equal priority rank are in the
\* order they have in the task collection (a task's id is its position
\* there).
C5_StableSort ==
    Derived =>
        \A i, j \in 1 .. Len(filteredTasks) :
            (/\ i < j
             /\ SpecifiedRank(filteredTasks[i].priority)
                    = SpecifiedRank(filteredTasks[j].priority))
                => filteredTasks[i].id < filteredTasks[j].id

\* two tasks of equal priority are shown behind a task that followed them
\* in the collection
C5_Witness ==
    /\ Derived
    /\ Len(filteredTasks) = 3
    /\ filteredTasks[1].id = 3
    /\ filteredTasks[2].id = 1
    /\ filteredTasks[3].id = 2
    /\ filteredTasks[2].priority = filteredTasks[3].priority

KnownPriorities == {"crucial", "high", "normal", "optional"}

\* C16: a task of the derived list whose priority is none of crucial, high,
\* normal and optional stands behind every high task and before every
\* optional task of the list, and stands before a normal task exactly when it
\* precedes that task in the task collection.
C16_UnknownPriorityRanksAsNormal ==
    Derived =>
        \A i, j \in 1 .. Len(filteredTasks) :
            filteredTasks[i].priority \notin KnownPriorities =>
                /\ filteredTasks[j].priority = "high" => j < i
                /\ filteredTasks[j].priority = "optional" => i < j
                /\ filteredTasks[j].priority = "normal"
                       => (i < j <=> filteredTasks[i].id < filteredTasks[j].id)

\* a low task that leads the collection is shown behind the high task and
\* before the normal task that followed it
C16_Witness ==
    /\ Derived
    /\ Len(tasks) = 3
    /\ tasks[1].priority = "low"
    /\ tasks[2].priority = "normal"
    /\ tasks[3].priority = "high"
    /\ Len(filteredTasks) = 3
    /\ filteredTasks[1].priority = "high"
    /\ filteredTasks[2].priority = "low"
    /\ filteredTasks[3].priority = "normal"

(***************************************************************************)
(* The calendar the date range is checked against: days counted year by    *)
(* year and month by month from 1 January 1970.                            *)
(***************************************************************************)
IsLeap(y) == IF y % 400 = 0 THEN TRUE ELSE IF y % 100 = 0 THEN FALSE ELSE y % 4 = 0

DaysInMonth(y, m) ==
    IF m = 1 THEN (IF IsLeap(y) THEN 29 ELSE 28)
    ELSE IF m \in {3, 5, 8, 10} THEN 30 ELSE 31

LeapYearsIn(years) == Cardinality({k \in years : IsLeap(k)})

FirstDayOfYear(y) ==
    IF y >= 1970
    THEN 365 * (y - 1970) + LeapYearsIn(1970 .. (y - 1))
    ELSE 0 - (365 * (1970 - y) + LeapYearsIn(y .. 1969))

RECURSIVE FirstDayOfMonth(_, _)
FirstDayOfMonth(y, m) ==
    IF m = 0 THEN FirstDayOfYear(y)
    ELSE FirstDayOfMonth(y, m - 1) + DaysInMonth(y, m - 1)

CalendarDay(y, m, d) == FirstDayOfMonth(y, m) + (d - 1)

\* the month after month m of year y, as << year, month >>
FollowingMonth(y, m) == IF m = 11 THEN << y + 1, 0 >> ELSE << y, m + 1 >>

\* now falls in month m of year y
InMonth(y, m) ==
    /\ CalendarDay(y, m, 1) <= now
    /\ now <= CalendarDay(y, m, DaysInMonth(y, m))

\* what C6 says of the range of a reference date in month m of year y
RangeCoversMonthAndFifteenDays(y, m) ==
    LET n == DaysInMonth(y, m)
        next == FollowingMonth(y, m)
    IN  /\ Len(dateRange) = n + 15
        /\ \A i \in 1 .. (Len(dateRange) - 1) : dateRange[i] < dateRange[i + 1]
        /\ dateRange[1] = CalendarDay(y, m, 1)
        /\ \A d \in 1 .. n : dateRange[d] = CalendarDay(y, m, d)
        /\ \A d \in 1 .. 15 : dateRange[n + d] = CalendarDay(next[1], next[2], d)

C7_CancelChangesNothing ==
    [][/\ (Len(prompts') < Len(prompts) /\ answered' = "cancel")
           => (tasks' = tasks /\ taskStore' = taskStore /\ saves' = saves)
       /\ Len(prompts') > Len(prompts)
           => (tasks' = tasks /\ taskStore' = taskStore /\ saves' = saves)
       /\ (Len(saves') > Len(saves) /\ saves'[Len(saves')].origin = "delete")
           => (Len(prompts') < Len(prompts) /\ answered' = "delete")]_vars

\* a prompt for a task of a loaded collection was cancelled
C7_Witness ==
    /\ answered = "cancel"
    /\ prompts = << >>
    /\ saves = << >>
    /\ Len(tasks) = 2
    /\ tasks = taskStore

\* C8: when the save of a toggle fails, the task collection stays as the
\* toggle left it, the failure alert is shown, the store is not written and
\* no further save is started.
C8_ToggleSaveFailureKeepsFlip ==
    [][(\E i \in 1 .. Len(saves) : ToggleSaveReject(i))
           => /\ tasks' = tasks
              /\ UpdateFailedAlert \in alerts'
              /\ taskStore' = taskStore
              /\ Len(saves') = Len(saves) - 1]_vars

\* the save of a toggle has failed and the flipped flag is still in memory
C8_Witness ==
    /\ UpdateFailedAlert \in alerts
    /\ saves = << >>
    /\ taskLoads = << >>
    /\ Len(tasks) = 2
    /\ Len(taskStore) = 2
    /\ tasks[1].completed
    /\ ~taskStore[1].completed

\* C9: no failure is lost: the rejection of a failed save is caught by a
\* handler that reports it, also when the save is that of a confirmed
\* delete.
C9_NoFailureIsLost == ~unhandled

\* no load, save or confirmation prompt is in flight
Quiescent == taskLoads = << >> /\ saves = << >> /\ prompts = << >>

NoSaveFailed == UpdateFailedAlert \notin alerts /\ ~unhandled

NoLoadFailed == LoadFailedAlert \notin alerts

\* C10 as stated: in every quiescent state reached without a failed save,
\* the task collection equals the store.
C10_QuiescentMemoryEqualsStore ==
    (Quiescent /\ NoSaveFailed) => tasks = taskStore

\* C10 as amended: in every quiescent state reached without a failed load
\* or save and without a load or save started while a save, or a save
\* started while a load, was in flight, the task collection equals the
\* store.
C10_SerialQuiescentMemoryEqualsStore ==
    (Quiescent /\ NoSaveFailed /\ NoLoadFailed /\ ~overlapped)
        => tasks = taskStore

\* a load, a toggle and a confirmed delete ran one after the other
C10_Witness ==
    /\ Quiescent
    /\ NoSaveFailed
    /\ NoLoadFailed
    /\ ~overlapped
    /\ answered = "delete"
    /\ Len(tasks) = 1
    /\ tasks[1].completed
    /\ tasks = taskStore

\* the race the amended C10 excludes: with no load and no save
\* failed, a load that read before a save and resolved after it leaves the
\* task collection and the store different
C10_NoRace ==
    (Quiescent /\ NoSaveFailed /\ NoLoadFailed) => tasks = taskStore

\* C12: a load of tasks that fails leaves the task collection as it was and
\* shows the failure alert, and a load that resolves after a failure still
\* replaces the task collection with the tasks it read.
C12_LoadFailureKeepsTasks ==
    [][/\ \A i \in 1 .. Len(taskLoads) :
              LoadTasksReject(i)
                  => (tasks' = tasks /\ LoadFailedAlert \in alerts')
       /\ \A i \in 1 .. Len(taskLoads) :
              (LoadFailedAlert \in alerts /\ LoadTasksResolve(i))
                  => tasks' = taskLoads[i].data]_vars

\* the first load failed and left the tasks empty, and a later reload has
\* read the two stored tasks
C12_Witness ==
    /\ LoadFailedAlert \in alerts
    /\ tasks = << >>
    /\ answered = "none"
    /\ Len(taskLoads) = 1
    /\ taskLoads[1].phase = "read"
    /\ Len(taskLoads[1].data) = 2

\* the collection ts without the task of the given id
Without(ts, taskId) == SelectSeq(ts, LAMBDA task : task.id # taskId)

\* C14: answering Delete makes the task collection, and the collection
\* handed to saveTasks, the task collection of that moment without the task
\* of the prompt, whatever happened since the prompt was opened.
C14_DeleteRemovesFromCurrentTasks ==
    [][\A i \in 1 .. Len(prompts) :
           PressDelete(i)
               => /\ tasks' = Without(tasks, prompts[i].taskId)
                  /\ saves'[Len(saves')].data
                         = Without(tasks, prompts[i].taskId)]_vars

(***************************************************************************)
(* The properties of handleToggleTaskCompletion, checked under ToggleSpec. *)
(***************************************************************************)
IdsOf(ts) == {ts[i].id : i \in 1 .. Len(ts)}

UniqueIds(ts) == \A i, j \in 1 .. Len(ts) : ts[i].id = ts[j].id => i = j

\* C13: a toggle with an id that no task of the collection has leaves the
\* task collection as it was, shows no error alert and leaves no rejection
\* uncaught.
C13_AbsentIdChangesNothing ==
    [][\A taskId \in TaskIds :
           (taskId \notin IdsOf(tasks) /\ HandleToggleTaskCompletion(taskId))
               => /\ tasks' = tasks
                  /\ alerts' = alerts
                  /\ unhandled' = unhandled]_vars

\* a toggle with an id that neither of the two tasks has is awaiting its save
C13_Witness ==
    /\ Len(tasks) = 2
    /\ Len(saves) = 1
    /\ saves[1].origin = "toggle"
    /\ saves[1].taskId \notin IdsOf(tasks)
    /\ saves[1].data = tasks
    /\ tasks = taskStore
    /\ alerts = {}

\* C15: a toggle with the id of a task of the collection flips the
\* completed flag of that task and of no other, keeps the length and the
\* order of the collection, keeps the ids unique, leaves id, createdAt,
\* dueDate, priority and category of every task as they were, and hands the
\* updated collection to saveTasks.
C15_TogglesExactlyOne ==
    [][\A taskId \in TaskIds :
           (/\ taskId \in IdsOf(tasks)
            /\ UniqueIds(tasks)
            /\ HandleToggleTaskCompletion(taskId))
               => /\ Len(tasks') = Len(tasks)
                  /\ UniqueIds(tasks')
                  /\ \A i \in 1 .. Len(tasks) :
                         /\ tasks'[i].id = tasks[i].id
                         /\ tasks'[i].createdAt = tasks[i].createdAt
                         /\ tasks'[i].dueDate = tasks[i].dueDate
                         /\ tasks'[i].priority = tasks[i].priority
                         /\ tasks'[i].category = tasks[i].category
                         /\ tasks'[i].completed
                                = IF tasks[i].id = taskId
                                  THEN ~tasks[i].completed
                                  ELSE tasks[i].completed
                  /\ Len(saves') = Len(saves) + 1
                  /\ saves'[Len(saves')].data = tasks']_vars

\* the second of three tasks was toggled and its save is in flight
C15_Witness ==
    /\ Len(tasks) = 3
    /\ Len(saves) = 1
    /\ saves[1].origin = "toggle"
    /\ saves[1].taskId = 2
    /\ saves[1].data = tasks
    /\ ~tasks[1].completed
    /\ tasks[2].completed
    /\ ~tasks[3].completed
    /\ \A i \in 1 .. 3 : ~taskStore[i].completed

(***************************************************************************)
(* The properties of the loads and of the category filter, checked under   *)
(* CategorySpec.                                                           *)
(***************************************************************************)
\* C11: a load of tasks that resolves leaves the task collection equal to
\* the tasks it read, and a load of categories that resolves leaves the
\* category collection equal to the categories it read, empty when the
\* store holds none.
C11_ReloadReplacesBoth ==
    [][/\ \A i \in 1 .. Len(taskLoads) :
              LoadTasksResolve(i) => tasks' = taskLoads[i].data
       /\ \A i \in 1 .. Len(categoryLoads) :
              LoadCategoriesResolve(i)
                  => categories' = categoryLoads[i].item.items]_vars

\* C19: with no load of categories in flight, activeCategoryName is null
\* when activeCategory is null, and a non-null activeCategoryName is the
\* name of a loaded category whose id is activeCategory.
C19_NameMatchesActiveCategory ==
    categoryLoads = << >> =>
        /\ activeCategory = Null => activeCategoryName = Null
        /\ activeCategoryName # Null =>
               \E i \in 1 .. Len(categories) :
                   /\ categories[i].id = activeCategory
                   /\ categories[i].name = activeCategoryName

(***************************************************************************)
(* The properties of the derived list as the screen runs, checked under    *)
(* ViewSpec.                                                               *)
(***************************************************************************)
\* C17: after every handler and the effects that follow it, the derived
\* list is the derivation of the present task collection, date, filter field
\* and category filter, and it is empty when the task collection is empty.
C17_DerivedListIsCurrent ==
    /\ filteredTasks
           = Derive(tasks, currentDate, selectedFilterType, activeCategory)
    /\ tasks = << >> => filteredTasks = << >>

\* the task was shown and toggled, and after the selection of the second
\* day and of the first category the derived list holds it no longer
C17_Witness ==
    /\ Len(tasks) = 1
    /\ tasks[1].completed
    /\ currentDate = TicksPerDay
    /\ activeCategory = "c1"
    /\ activeCategoryName = "Work"
    /\ filteredTasks = << >>

\* a step of the view-state handlers or of a category load, each of which
\* runs the filter effect
RunsDerivationOnly ==
    \/ \E date \in SliderDates : HandleDateChange(date)
    \/ ToggleDateFilterType
    \/ \E category \in ViewCategories : HandleCategoryFilter(category)
    \/ \E i \in 1 .. Len(categoryLoads) : LoadCategoriesResolve(i)

\* a step of a load that resolves, of a toggle or of a confirmed delete
WritesTasks ==
    \/ \E i \in 1 .. Len(taskLoads) : LoadTasksResolve(i)
    \/ \E taskId \in ShownIds : HandleToggleTaskCompletion(taskId)
    \/ \E i \in 1 .. Len(prompts) : PressDelete(i)

\* C18: a step that runs the derivation leaves the task collection as it
\* was, and the task collection changes only in a step of a load that
\* resolves, of a toggle or of a confirmed delete.
C18_DerivationLeavesTasks ==
    [][/\ RunsDerivationOnly => tasks' = tasks
       /\ tasks' # tasks => WritesTasks]_vars

\* the loaded task is hidden by the createdAt filter on the second day and
\* is still in the task collection
C18_Witness ==
    /\ tasks = << ViewTask >>
    /\ selectedFilterType = "createdAt"
    /\ currentDate = TicksPerDay
    /\ activeCategory = Null
    /\ filteredTasks = << >>

====
